---- MODULE Spec2Model ----
(***************************************************************************)
(* A model of the recurrent replay buffer and R2D2 learner of              *)
(* junk/torch_r2d2_test.py and of the independent multi-agent trainer of   *)
(* interactive_agents/training/independent.py.                             *)
(*                                                                         *)
(* The specifications share the variables:                                 *)
(*   SpecBuffer     ReplayBuffer driven by arbitrary add / sample calls    *)
(*   SpecR2D2       R2D2.train() with its target network and optimizer     *)
(*   SpecTrainer    IndependentTrainer construction and train()            *)
(*   SpecStopwatch  Stopwatch driven by arbitrary calls                    *)
(*   SpecMain       the epochs of the main loop: train(), then evaluate()  *)
(*   SpecRollout    the rollout loop against MemoryGame or                 *)
(*                  CoordinationGame, whatever actions are chosen          *)
(***************************************************************************)
EXTENDS Integers, Sequences, FiniteSets, TLC

(* ------------------------------ bounds --------------------------------- *)
\* largest ReplayBuffer capacity tried
MaxCapacity == 3
\* largest number of transitions of an episode handed to add
MaxT == 2
\* number of add calls explored
MaxAdds == 4
\* batch_size of the sample calls explored
SampleSize == 2
\* action_space.n: the default num_cues of MemoryGame
NumActions == 2
\* number of R2D2.train() calls explored
MaxTrainCalls == 4
\* largest sync_interval, num_episodes and num_batches of the learner
MaxSync == 2
MaxEpisodes == 2
MaxBatches == 2
\* largest length of the memory game
MaxMemLength == 1
\* the parameters of a network take one of this many values
NumParamValues == 2
\* np.random is a tape of this many bits, repeated
SeedBits == 2
\* number of agents of the trainer's environment
NumAgents == 2
\* number of IndependentTrainer.train() calls explored
MaxTrainerCalls == 2
\* the iteration_episodes, eval_episodes and max_steps of the config
MaxIterEpisodes == 2
MaxEvalEpisodes == 1
MaxSteps == 2
\* the clock advances by at most this much while a sampler or learner runs
MaxTick == 2
\* number of Stopwatch calls explored
MaxSwCalls == 4
\* largest num_episodes handed to evaluate
MaxEvalRollouts == 2
\* number of epochs of the main loop explored
MaxEpochs == 2
\* largest rounds of the coordination game
MaxRounds == 2
\* number of episodes rolled out against an environment on its own
MaxRollouts == 2

VARIABLES
    \* ReplayBuffer fields
    capacity,       \* self._capacity
    rb_index,       \* self._index
    rb_obs,         \* self._obs
    rb_actions,     \* self._actions
    rb_rewards,     \* self._rewards
    rb_dones,       \* self._dones
    \* history of the calls made on the buffer
    added,          \* the raw episode of every add call, in call order
    addResult,      \* outcome of the last add call
    batch,          \* the six tensors returned by the last sample call
    batchSrc,       \* the stored episodes the last sample call drew
    sampleResult,   \* outcome of the last sample call
    \* R2D2 fields
    sync_interval,  \* self._sync_interval
    num_episodes,   \* self._num_episodes
    num_batches,    \* self._num_batches
    iterations,     \* self._iterations
    tensors,        \* the parameter tensors in memory: cell -> value
    online_params,  \* the cell self._online_network's parameters live in
    target_params,  \* the cell self._target_network's parameters live in
    opt_params,     \* the cells self._optimizer updates
    hidden,         \* self._state: the recurrent state
    \* R2D2.train() in progress
    r2_pc,          \* position in train()
    r2_error,       \* the exception that ended train(), if any
    ep_i,           \* episodes rolled out so far in this call
    b_i,            \* batches trained so far in this call
    observations,   \* locals of the rollout loop
    actions,
    rewards,
    dones,
    done,
    callStartOnline, \* the online parameters when this call began
    explored,       \* per act call of this episode, whether it explored
    \* MemoryGame fields
    mem_length,     \* self._length
    current_step,   \* self._current_step
    current_cue,    \* self._current_cue
    \* np.random
    seed,
    draws,          \* numbers drawn so far: the position on the tape
    \* the config handed to IndependentTrainer
    cfg_has_env,        \* "env" in config
    cfg_has_learner,    \* "learner" in config
    \* IndependentTrainer fields
    iteration_episodes, \* self._iteration_episodes
    eval_episodes,      \* self._eval_episodes
    max_steps,          \* self._max_steps
    env_built,          \* self._env exists
    eval_env_built,     \* self._eval_env exists
    learners,           \* self._learners
    training_policies,  \* self._training_policies
    eval_policies,      \* self._eval_policies
    timer,              \* self._timer
    total_iterations,   \* self._total_iterations
    total_episodes,     \* self._total_episodes
    total_samples,      \* self._total_samples
    total_sampling_time, \* self._total_sampling_time
    total_learning_time, \* self._total_learning_time
    \* IndependentTrainer.__init__ and train() in progress
    ctor_pc,            \* position in __init__
    ctor_error,         \* the exception that ended __init__, if any
    t_pc,               \* position in train()
    t_error,            \* where the exception that ended train() was raised
    watch,              \* locals of train()
    t_batch,
    t_batch_stats,
    stats,
    pending,            \* agents of batch.items() not yet visited
    result,             \* the mapping this train() returned, once it has
    \* the world around the trainer
    clock,              \* time.time()
    env_steps,          \* steps taken by each environment in this train()
    sample_calls,       \* the arguments of every sampler call of this train()
    learn_calls,        \* per agent, the arguments of learn() in this train()
    pre,                \* the accumulated statistics when this train() began
    pre_params,         \* the learners' parameters when this train() began
    prev_result,        \* the totals in the mapping the last train() before
                        \* this one returned
    \* a Stopwatch on its own
    stopwatch,          \* the Stopwatch: self._started and self._elapsed
    sw_now,             \* time.time()
    sw_calls,           \* the calls made on it so far, with their times
    \* evaluate(env, agent) in progress
    ev_episodes,        \* num_episodes of evaluate
    ev_calls,           \* evaluate calls made so far
    ev_i,               \* episodes evaluated so far in this call
    ev_obs,             \* locals of evaluate
    episode_reward,
    total_reward,
    total_successes,
    ev_seen,            \* the observations of this evaluation episode
    \* CoordinationGame fields and the rollout played against an environment
    env_kind,           \* which environment the rollout plays
    rounds,             \* self._rounds
    partners,           \* self._partners
    current_round,      \* self._current_round
    current_partner,    \* self._current_partner
    opponent_action,    \* self._opponent_action
    fixed_action,       \* Fixed._current_action
    fp_counts,          \* FictitiousPlay._counts
    ro_pc,              \* position in the rollout loop
    ro_episodes,        \* episodes rolled out so far
    ro_steps,           \* steps taken since the environment's reset
    ro_out              \* what the last step returned: reward, done, action

bufVars == <<capacity, rb_index, rb_obs, rb_actions, rb_rewards, rb_dones,
             added, addResult, batch, batchSrc, sampleResult>>

r2Vars == <<sync_interval, num_episodes, num_batches, iterations, tensors,
            online_params, target_params, opt_params, hidden, r2_pc, r2_error,
            ep_i, b_i, observations, actions, rewards, dones, done,
            callStartOnline, mem_length, current_step, current_cue, seed, draws, explored>>

trVars == <<cfg_has_env, cfg_has_learner, iteration_episodes, eval_episodes,
            max_steps, env_built, eval_env_built, learners, training_policies,
            eval_policies, timer, total_iterations, total_episodes,
            total_samples, total_sampling_time, total_learning_time, ctor_pc,
            ctor_error, t_pc, t_error, watch, t_batch, t_batch_stats, stats,
            pending, result, clock, env_steps, sample_calls, learn_calls, pre,
            pre_params, prev_result>>

swVars == <<stopwatch, sw_now, sw_calls>>

evVars == <<ev_episodes, ev_calls, ev_i, ev_obs, episode_reward, total_reward,
            total_successes, ev_seen>>

coVars == <<env_kind, rounds, partners, current_round, current_partner,
            opponent_action, fixed_action, fp_counts, ro_pc, ro_episodes, ro_steps,
            ro_out>>

vars == <<bufVars, r2Vars, trVars, swVars, evVars, coVars>>

(* ------------------------------ helpers -------------------------------- *)
Max(S) == CHOOSE m \in S : \A x \in S : x <= m

\* torch.tensor(dones, dtype=torch.float32): True -> 1.0, False -> 0.0
ToFloat(b) == IF b THEN 1 ELSE 0

\* nn.functional.one_hot(action, n): a 0/1 vector with a single 1 at the action
OneHot(a) == [i \in 1..NumActions |-> IF i = a + 1 THEN 1 ELSE 0]

ZeroAction == [i \in 1..NumActions |-> 0]

\* torch.ones_like(x) of a one-dimensional tensor
OnesLike(x) == [i \in 1..Len(x) |-> 1]

\* x[:-1] and x[1:] of a tensor with at least one row
ButLast(x) == SubSeq(x, 1, Len(x) - 1)

\* A next-observation slice that is not shifted.
ButFirstUnshifted(x) == SubSeq(x, 1, Len(x) - 1)

ButFirst(x) == SubSeq(x, 2, Len(x))

\* A wrong padding: repeats the sequence's last entry instead of zeros.
PadSequenceEdge(seqs, zero) ==
    LET maxLen == Max({Len(seqs[b]) : b \in DOMAIN seqs} \cup {0})
    IN  [t \in 1..maxLen |->
            [b \in DOMAIN seqs |->
                IF t <= Len(seqs[b]) THEN seqs[b][t]
                ELSE IF Len(seqs[b]) > 0 THEN seqs[b][Len(seqs[b])] ELSE zero]]

\* nn.utils.rnn.pad_sequence(seqs): time-major, right-padded with zeros to the
\* longest sequence; out[t][b]
PadSequence(seqs, zero) ==
    LET maxLen == Max({Len(seqs[b]) : b \in DOMAIN seqs} \cup {0})
    IN  [t \in 1..maxLen |->
            [b \in DOMAIN seqs |->
                IF t <= Len(seqs[b]) THEN seqs[b][t] ELSE zero]]

(* ------------------------------ episodes ------------------------------- *)
\* A raw episode of T transitions as the caller passes it to add: T+1
\* observations, T actions, rewards and done flags.  Its values carry the
\* number k of the add call, so that episodes of different calls differ.
MkEpisode(T, k) ==
    [obs     |-> [i \in 1..T + 1 |-> 10 * k + i],
     actions |-> [i \in 1..T |-> (k + i) % NumActions],
     rewards |-> [i \in 1..T |-> IF i = T THEN k ELSE 0],
     dones   |-> [i \in 1..T |-> i = T]]

\* the tensors add builds from a raw episode
ObsTensor(ep)     == ep.obs
ActionTensor(ep)  == [i \in 1..Len(ep.actions) |-> OneHot(ep.actions[i])]
RewardTensor(ep)  == ep.rewards
DoneTensor(ep)    == [i \in 1..Len(ep.dones) |-> ToFloat(ep.dones[i])]

(* ------------------------------ ReplayBuffer --------------------------- *)
NoBatch == [obs |-> <<>>, next_obs |-> <<>>, actions |-> <<>>,
            rewards |-> <<>>, dones |-> <<>>, mask |-> <<>>]

\* ReplayBuffer.__init__
BufferInit(cap) ==
    /\ capacity = cap
    /\ rb_index = 0
    /\ rb_obs = <<>>
    /\ rb_actions = <<>>
    /\ rb_rewards = <<>>
    /\ rb_dones = <<>>
    /\ added = <<>>
    /\ addResult = "none"
    /\ batch = NoBatch
    /\ batchSrc = <<>>
    /\ sampleResult = "none"

\* the branch test of add: len(obs) is the length of the episode's
\* observation tensor
AppendTest(obs) == Len(obs) < capacity

\* ReplayBuffer.add(obs, actions, rewards, dones)
AddEpisode(ep) ==
    LET obs_t     == ObsTensor(ep)
        actions_t == ActionTensor(ep)
        rewards_t == RewardTensor(ep)
        dones_t   == DoneTensor(ep)
    IN  /\ added' = Append(added, ep)
        /\ IF AppendTest(obs_t)
           THEN /\ rb_obs' = Append(rb_obs, obs_t)
                /\ rb_actions' = Append(rb_actions, actions_t)
                /\ rb_rewards' = Append(rb_rewards, rewards_t)
                /\ rb_dones' = Append(rb_dones, dones_t)
                /\ rb_index' = (rb_index + 1) % capacity
                /\ addResult' = "ok"
           ELSE IF rb_index < Len(rb_obs)
           THEN /\ rb_obs' = [rb_obs EXCEPT ![rb_index + 1] = obs_t]
                /\ rb_actions' = [rb_actions EXCEPT ![rb_index + 1] = actions_t]
                /\ rb_rewards' = [rb_rewards EXCEPT ![rb_index + 1] = rewards_t]
                /\ rb_dones' = [rb_dones EXCEPT ![rb_index + 1] = dones_t]
                /\ rb_index' = (rb_index + 1) % capacity
                /\ addResult' = "ok"
           ELSE \* self._obs[self._index] = obs raises IndexError: the list
                \* assignment index is out of range, nothing was written
                /\ addResult' = "IndexError"
                /\ UNCHANGED <<rb_obs, rb_actions, rb_rewards, rb_dones, rb_index>>
        /\ UNCHANGED capacity

\* the mask rows of sample
MaskRows(indices) ==
    [b \in DOMAIN indices |-> OnesLike(rb_dones[indices[b] + 1])]

\* ReplayBuffer.sample(batch_size) with the indices np.random.randint drew
SampleBatch(indices) ==
    [obs      |-> PadSequence([b \in DOMAIN indices |-> ButLast(rb_obs[indices[b] + 1])], 0),
     next_obs |-> PadSequence([b \in DOMAIN indices |-> ButFirst(rb_obs[indices[b] + 1])], 0),
     actions  |-> PadSequence([b \in DOMAIN indices |-> rb_actions[indices[b] + 1]], ZeroAction),
     rewards  |-> PadSequence([b \in DOMAIN indices |-> rb_rewards[indices[b] + 1]], 0),
     dones    |-> PadSequence([b \in DOMAIN indices |-> rb_dones[indices[b] + 1]], 0),
     mask     |-> PadSequence(MaskRows(indices), 0)]

\* the stored episodes behind the indices
StoredEpisodes(indices) ==
    [b \in DOMAIN indices |->
        [obs     |-> rb_obs[indices[b] + 1],
         actions |-> rb_actions[indices[b] + 1],
         rewards |-> rb_rewards[indices[b] + 1],
         dones   |-> rb_dones[indices[b] + 1]]]

\* np.random.randint(len(self._actions), size=batch_size)
IndexChoices(batchSize) == [1..batchSize -> 0..Len(rb_actions) - 1]

(* ---------------------- SpecBuffer: the buffer alone ------------------- *)
\* no learner exists
NoLearner ==
    /\ sync_interval = 1
    /\ num_episodes = 0
    /\ num_batches = 0
    /\ iterations = 0
    /\ tensors = <<>>
    /\ online_params = "none"
    /\ target_params = "none"
    /\ opt_params = {}
    /\ hidden = <<>>
    /\ r2_pc = "none"
    /\ r2_error = "none"
    /\ ep_i = 0
    /\ b_i = 0
    /\ observations = <<>>
    /\ actions = <<>>
    /\ rewards = <<>>
    /\ dones = <<>>
    /\ done = FALSE
    /\ callStartOnline = 0
    /\ mem_length = 0
    /\ current_step = 0
    /\ current_cue = 0
    /\ seed = 0
    /\ draws = 0
    /\ explored = <<>>

\* no trainer exists
NoTrainer ==
    /\ cfg_has_env = FALSE
    /\ cfg_has_learner = FALSE
    /\ iteration_episodes = 0
    /\ eval_episodes = 0
    /\ max_steps = 0
    /\ env_built = FALSE
    /\ eval_env_built = FALSE
    /\ learners = <<>>
    /\ training_policies = <<>>
    /\ eval_policies = <<>>
    /\ timer = <<>>
    /\ total_iterations = 0
    /\ total_episodes = 0
    /\ total_samples = 0
    /\ total_sampling_time = 0
    /\ total_learning_time = 0
    /\ ctor_pc = "none"
    /\ ctor_error = "none"
    /\ t_pc = "none"
    /\ t_error = "none"
    /\ watch = <<>>
    /\ t_batch = <<>>
    /\ t_batch_stats = <<>>
    /\ stats = <<>>
    /\ pending = {}
    /\ result = <<>>
    /\ clock = 0
    /\ env_steps = <<>>
    /\ sample_calls = <<>>
    /\ learn_calls = <<>>
    /\ pre = <<>>
    /\ pre_params = <<>>
    /\ prev_result = <<>>

\* evaluate is not run
NoEvaluate ==
    /\ ev_episodes = 0
    /\ ev_calls = 0
    /\ ev_i = 0
    /\ ev_obs = 0
    /\ episode_reward = 0
    /\ total_reward = 0
    /\ total_successes = 0
    /\ ev_seen = <<>>

\* no rollout against an environment on its own
NoRollout ==
    /\ env_kind = "none"
    /\ rounds = 0
    /\ partners = {}
    /\ current_round = 0
    /\ current_partner = "none"
    /\ opponent_action = -1
    /\ fixed_action = -1
    /\ fp_counts = <<>>
    /\ ro_pc = "none"
    /\ ro_episodes = 0
    /\ ro_steps = 0
    /\ ro_out = <<>>

\* no Stopwatch on its own exists
NoStopwatch ==
    /\ stopwatch = <<>>
    /\ sw_now = 0
    /\ sw_calls = <<>>

InitBuffer ==
    /\ \E cap \in 1..MaxCapacity : BufferInit(cap)
    /\ NoLearner
    /\ NoTrainer
    /\ NoStopwatch
    /\ NoEvaluate
    /\ NoRollout

Add ==
    /\ Len(added) < MaxAdds
    /\ \E T \in 0..MaxT : AddEpisode(MkEpisode(T, Len(added) + 1))
    \* the batch of an earlier sample call is the caller's, not the buffer's
    /\ batch' = NoBatch
    /\ batchSrc' = <<>>
    /\ sampleResult' = "none"
    /\ UNCHANGED <<r2Vars, trVars, swVars, evVars, coVars>>

Sample ==
    /\ Len(rb_actions) > 0
    \* sample leaves the buffer as it is: one call per buffer content
    /\ sampleResult = "none"
    /\ \E indices \in IndexChoices(SampleSize) :
          /\ batch' = SampleBatch(indices)
          /\ batchSrc' = StoredEpisodes(indices)
    /\ sampleResult' = "ok"
    /\ UNCHANGED <<capacity, rb_index, rb_obs, rb_actions, rb_rewards, rb_dones,
                   added, addResult>>
    /\ UNCHANGED <<r2Vars, trVars, swVars, evVars, coVars>>

\* np.random.randint(0, size=batch_size) raises ValueError on an empty buffer
SampleEmpty ==
    /\ Len(rb_actions) = 0
    /\ sampleResult # "ValueError"
    /\ sampleResult' = "ValueError"
    /\ UNCHANGED <<capacity, rb_index, rb_obs, rb_actions, rb_rewards, rb_dones,
                   added, addResult, batch, batchSrc>>
    /\ UNCHANGED <<r2Vars, trVars, swVars, evVars, coVars>>

NextBuffer == Add \/ Sample \/ SampleEmpty

SpecBuffer == InitBuffer /\ [][NextBuffer]_vars

(* ------------------- claims about the buffer alone --------------------- *)
\* number of transitions of a stored episode: one less than its observations
Transitions(e) == Len(e.obs) - 1

\* C1: after any sequence of add calls the number of stored episodes is at
\* most capacity.
C1_SizeAtMostCapacity == Len(rb_obs) <= capacity

\* C2: after n > capacity add calls the buffer holds exactly the capacity most
\* recently added episodes, the episode of call k in slot (k-1) mod capacity.
C2_KeepsMostRecent ==
    Len(added) > capacity =>
        /\ Len(rb_obs) = capacity
        /\ \A k \in (Len(added) - capacity + 1)..Len(added) :
              LET slot == ((k - 1) % capacity) + 1
              IN  /\ rb_obs[slot] = ObsTensor(added[k])
                  /\ rb_actions[slot] = ActionTensor(added[k])
                  /\ rb_rewards[slot] = RewardTensor(added[k])
                  /\ rb_dones[slot] = DoneTensor(added[k])

\* C17: add appends the episode while the buffer holds fewer than capacity
\* episodes and overwrites the slot at the write cursor once it holds
\* capacity; after every add the cursor is the number of add calls so far
\* modulo capacity, the buffer holds min(calls, capacity) episodes, and the
\* episode just added sits in the slot before the cursor, where the oldest
\* stored episode was.
C17_RingCursor ==
    /\ rb_index = Len(added) % capacity
    /\ Len(rb_obs) = (IF Len(added) < capacity THEN Len(added) ELSE capacity)
    /\ Len(added) >= 1 =>
          LET slot == ((Len(added) - 1) % capacity) + 1
          IN  /\ slot \in DOMAIN rb_obs
              /\ rb_obs[slot] = ObsTensor(added[Len(added)])

\* C21: add never fails on a well-formed episode: for every capacity >= 1
\* and every sequence of add calls with episodes of any length, each call
\* completes and leaves its episode stored in the buffer (whenever add takes
\* the overwrite branch, the write cursor indexes an existing slot).
C21_AddNeverFails ==
    (Len(added) >= 1 /\ \A k \in DOMAIN added : Transitions(added[k]) >= 1) =>
        /\ addResult = "ok"
        /\ \E slot \in DOMAIN rb_obs :
              /\ rb_obs[slot] = ObsTensor(added[Len(added)])
              /\ rb_actions[slot] = ActionTensor(added[Len(added)])
              /\ rb_rewards[slot] = RewardTensor(added[Len(added)])
              /\ rb_dones[slot] = DoneTensor(added[Len(added)])

\* C8: in every batch sample returns, mask[t, b] = 1 exactly when t is less
\* than the number of transitions of the b-th sampled episode, the tensors
\* are as long as the longest sampled episode, and wherever the mask is 0 the
\* observation, next observation, one-hot action, reward and done entries
\* are zero.
C8_MaskMatchesLength ==
    sampleResult = "ok" =>
        LET maxT == Max({Transitions(batchSrc[b]) : b \in DOMAIN batchSrc})
        IN  /\ Len(batch.mask) = maxT
            /\ \A t \in 1..maxT : \A b \in DOMAIN batchSrc :
                  /\ batch.mask[t][b] = (IF t <= Transitions(batchSrc[b]) THEN 1 ELSE 0)
                  /\ batch.mask[t][b] = 0 =>
                        /\ batch.obs[t][b] = 0
                        /\ batch.next_obs[t][b] = 0
                        /\ batch.actions[t][b] = ZeroAction
                        /\ batch.rewards[t][b] = 0
                        /\ batch.dones[t][b] = 0

\* a batch of two episodes of different lengths: the shorter one is padded
C8_Witness ==
    /\ sampleResult = "ok"
    /\ \E b1, b2 \in DOMAIN batchSrc :
          /\ Transitions(batchSrc[b1]) >= 1
          /\ Transitions(batchSrc[b2]) > Transitions(batchSrc[b1])
          /\ batch.mask[Transitions(batchSrc[b2])][b1] = 0
          /\ batch.mask[Transitions(batchSrc[b2])][b2] = 1

\* the six tensors of a batch
BatchFields == {"obs", "next_obs", "actions", "rewards", "dones", "mask"}

\* C18: sample(batch_size) returns exactly batch_size columns, each taken from
\* an episode stored in the buffer, the same one possibly more than once; for
\* column b with an episode of T transitions and each t < T the observation
\* entry is the episode's observation t, the next-observation entry its
\* observation t+1, and the action, reward and done entries its t-th action
\* (one-hot), reward and done flag; all six tensors have the same first two
\* dimensions, the longest sampled episode length and batch_size.
C18_BatchColumnsAreStoredEpisodes ==
    sampleResult = "ok" =>
        LET maxT == Max({Transitions(batchSrc[b]) : b \in DOMAIN batchSrc})
        IN  /\ DOMAIN batchSrc = 1..SampleSize
            /\ \A f \in BatchFields :
                  /\ Len(batch[f]) = maxT
                  /\ \A t \in 1..maxT : DOMAIN batch[f][t] = 1..SampleSize
            /\ \A b \in 1..SampleSize :
                  \E i \in DOMAIN rb_obs : \E k \in DOMAIN added :
                      /\ rb_obs[i] = added[k].obs
                      /\ batchSrc[b].obs = rb_obs[i]
                      /\ \A t \in 1..Len(added[k].actions) :
                            /\ batch.obs[t][b] = added[k].obs[t]
                            /\ batch.next_obs[t][b] = added[k].obs[t + 1]
                            /\ batch.actions[t][b] = OneHot(added[k].actions[t])
                            /\ batch.rewards[t][b] = added[k].rewards[t]
                            /\ batch.dones[t][b] = ToFloat(added[k].dones[t])

\* the buffer holds several episodes and the batch drew the same episode of
\* two transitions twice
C18_Witness ==
    /\ sampleResult = "ok"
    /\ Len(rb_obs) >= 2
    /\ batchSrc[1] = batchSrc[2]
    /\ Transitions(batchSrc[1]) = 2
    /\ batch.next_obs[2][1] = batchSrc[1].obs[3]
    /\ batch.next_obs[2][1] # batch.obs[2][1]

(* ------------------------------ np.random ------------------------------ *)
\* the n-th bit of the random tape
Bit(n) == (seed \div (2 ^ (n % SeedBits))) % 2

\* np.random.randint(k) and action_space.sample() as the n-th draw
RandInt(n, k) == Bit(n) % k

\* np.random.random() <= epsilon as the n-th draw
Explore(n) == Bit(n) = 1

(* ------------------------------ MemoryGame ----------------------------- *)
\* MemoryGame._obs without its noise: the cue at step 0, the end marker at
\* step length, nothing in between
MemObs(step, cue) ==
    IF step = 0 THEN 10 + cue
    ELSE IF step = mem_length THEN 1
    ELSE 0

\* A step that ends the episode one step late.
MemStepOneLate(action) ==
    IF current_step <= mem_length
    THEN <<current_step + 1, MemObs(current_step + 1, current_cue), 0, FALSE>>
    ELSE <<current_step, MemObs(current_step, current_cue),
           IF action = current_cue THEN 1 ELSE 0, TRUE>>

\* MemoryGame.step(action): <<current_step', obs, reward, done>>
MemStep(action) ==
    IF current_step < mem_length
    THEN <<current_step + 1, MemObs(current_step + 1, current_cue), 0, FALSE>>
    ELSE <<current_step, MemObs(current_step, current_cue),
           IF action = current_cue THEN 1 ELSE 0, TRUE>>

(* ------------------------------ LSTMNet -------------------------------- *)
ParamValues == 0..NumParamValues - 1
Cells == {"online", "target"}

\* A reset that leaves the recurrent state as it is.
H0Stale == hidden

\* LSTMNet.get_h0: the zero state
H0 == <<>>

\* the recurrent state after a forward pass: what the network has been fed
\* since the zero state
Forward(obs, state) == Append(state, obs)

\* q_values.argmax() of the network with parameters p in state h: some
\* function of both
QArgmax(p, h) == (p + Len(h)) % NumActions

(* ------------------------------ R2D2 ----------------------------------- *)
Online == tensors[online_params]
Target == tensors[target_params]

\* buffer sizes of the learner: as long as an episode's observations (add
\* takes the overwrite branch) and one more (add appends)
R2BufferSizes == {mem_length + 2, mem_length + 3}

\* R2D2.__init__
R2D2Init ==
    /\ sync_interval \in 1..MaxSync
    /\ num_episodes \in 0..MaxEpisodes
    /\ num_batches \in 1..MaxBatches
    /\ mem_length \in 0..MaxMemLength
    /\ \E cap \in R2BufferSizes : BufferInit(cap)
    /\ tensors \in [Cells -> ParamValues]
    /\ online_params = "online"
    /\ target_params = "target"
    /\ opt_params = {"online"}
    /\ iterations = 0
    /\ hidden = <<>>
    /\ r2_pc = "idle"
    /\ r2_error = "none"
    /\ ep_i = 0
    /\ b_i = 0
    /\ observations = <<>>
    /\ actions = <<>>
    /\ rewards = <<>>
    /\ dones = <<>>
    /\ done = FALSE
    /\ callStartOnline = tensors["online"]
    /\ current_step = 0
    /\ current_cue = 0
    /\ seed \in 0..(2 ^ SeedBits - 1)
    /\ draws = 0
    /\ explored = <<>>
    /\ NoTrainer
    /\ NoStopwatch
    /\ NoEvaluate
    /\ NoRollout

\* A sync that is one call late.
SyncDueLate(it) == it % sync_interval = 1

\* self._iterations % self._sync_interval == 0
SyncDue(it) == it % sync_interval = 0

\* A sync that makes the target network share the online network's tensors.
LoadStateDictAlias == [t |-> tensors, ref |-> online_params]

\* self._target_network.load_state_dict(self._online_network.state_dict()):
\* the values are copied into the target network's own tensors
LoadStateDict ==
    [t |-> [tensors EXCEPT ![target_params] = tensors[online_params]],
     ref |-> target_params]

\* self._optimizer.step(): the tensors handed to Adam take new values
OptimizerStep(v) ==
    [c \in DOMAIN tensors |-> IF c \in opt_params THEN v ELSE tensors[c]]

\* A rollout loop that runs once more than num_episodes.
AfterEpisodeOneMore(n) ==
    IF n <= num_episodes THEN "reset"
    ELSE IF num_batches > 0 THEN "learn"
    ELSE "idle"

\* where train() goes once n episodes are rolled out
AfterEpisode(n) ==
    IF n < num_episodes THEN "reset"
    ELSE IF num_batches > 0 THEN "learn"
    ELSE "idle"

\* A rollout loop that takes one more step after the environment is done.
AfterStepOnceMore(d) == IF d /\ done THEN "add" ELSE "act"

\* while not done: where the rollout goes after a step that returned d
AfterStep(d) == IF d THEN "add" ELSE "act"

\* train(): the counter and the sync
TrainBegin ==
    /\ r2_pc = "idle"
    /\ iterations < MaxTrainCalls
    /\ iterations' = iterations + 1
    /\ callStartOnline' = Online
    /\ IF SyncDue(iterations + 1)
       THEN /\ tensors' = LoadStateDict.t
            /\ target_params' = LoadStateDict.ref
       ELSE UNCHANGED <<tensors, target_params>>
    /\ ep_i' = 0
    /\ b_i' = 0
    /\ r2_pc' = AfterEpisode(0)
    /\ UNCHANGED <<sync_interval, num_episodes, num_batches, online_params,
                   opt_params, hidden, r2_error, observations, actions, rewards,
                   dones, done, mem_length, current_step, current_cue, seed, draws, explored>>
    /\ UNCHANGED bufVars
    /\ UNCHANGED <<trVars, swVars, evVars, coVars>>

\* train(): self.reset(), self._env.reset() and the empty episode lists
EpisodeReset ==
    /\ r2_pc = "reset"
    /\ hidden' = H0
    /\ current_step' = 0
    /\ current_cue' = RandInt(draws, NumActions)
    /\ draws' = (draws + 1) % SeedBits
    /\ observations' = <<MemObs(0, current_cue')>>
    /\ actions' = <<>>
    /\ rewards' = <<>>
    /\ dones' = <<>>
    /\ done' = FALSE
    /\ explored' = <<>>
    /\ r2_pc' = "act"
    /\ UNCHANGED <<sync_interval, num_episodes, num_batches, iterations, tensors,
                   online_params, target_params, opt_params, r2_error, ep_i, b_i,
                   callStartOnline, mem_length, seed>>
    /\ UNCHANGED bufVars
    /\ UNCHANGED <<trVars, swVars, evVars, coVars>>

\* one turn of the while loop: self.act(obs) and self._env.step(action)
EnvStep ==
    /\ r2_pc = "act"
    /\ LET obs     == observations[Len(observations)]
           greedy  == QArgmax(Online, hidden)
           explore == Explore(draws)
           action  == IF explore THEN RandInt(draws + 1, NumActions) ELSE greedy
           out     == MemStep(action)
       IN  /\ hidden' = Forward(obs, hidden)
           /\ draws' = (IF explore THEN draws + 2 ELSE draws + 1) % SeedBits
           /\ current_step' = out[1]
           /\ observations' = Append(observations, out[2])
           /\ actions' = Append(actions, action)
           /\ rewards' = Append(rewards, out[3])
           /\ dones' = Append(dones, out[4])
           /\ done' = out[4]
           /\ explored' = Append(explored, explore)
           /\ r2_pc' = AfterStep(out[4])
    /\ UNCHANGED <<sync_interval, num_episodes, num_batches, iterations, tensors,
                   online_params, target_params, opt_params, r2_error, ep_i, b_i,
                   callStartOnline, mem_length, current_cue, seed>>
    /\ UNCHANGED bufVars
    /\ UNCHANGED <<trVars, swVars, evVars, coVars>>

\* train(): self._replay_buffer.add(observations, actions, rewards, dones)
AddStep ==
    /\ r2_pc = "add"
    /\ AddEpisode([obs |-> observations, actions |-> actions,
                   rewards |-> rewards, dones |-> dones])
    /\ IF addResult' = "IndexError"
       THEN /\ r2_pc' = "failed"
            /\ r2_error' = "IndexError"
            /\ UNCHANGED ep_i
       ELSE /\ ep_i' = ep_i + 1
            /\ r2_pc' = AfterEpisode(ep_i + 1)
            /\ UNCHANGED r2_error
    /\ UNCHANGED <<sync_interval, num_episodes, num_batches, iterations, tensors,
                   online_params, target_params, opt_params, hidden, b_i,
                   observations, actions, rewards, dones, done, callStartOnline,
                   mem_length, current_step, current_cue, seed, draws, explored>>
    /\ UNCHANGED <<batch, batchSrc, sampleResult>>
    /\ UNCHANGED <<trVars, swVars, evVars, coVars>>

\* train(): one sample, loss, backward and optimizer step.  The batch is a
\* local of the loop; sample raises on an empty buffer.
LearnRound ==
    /\ r2_pc = "learn"
    /\ IF Len(rb_actions) = 0
       THEN /\ r2_pc' = "failed"
            /\ r2_error' = "ValueError"
            /\ UNCHANGED <<tensors, b_i>>
       ELSE /\ IndexChoices(SampleSize) # {}
            /\ \E v \in ParamValues : tensors' = OptimizerStep(v)
            /\ b_i' = b_i + 1
            /\ r2_pc' = IF b_i + 1 < num_batches THEN "learn" ELSE "idle"
            /\ UNCHANGED r2_error
    /\ UNCHANGED <<sync_interval, num_episodes, num_batches, iterations,
                   online_params, target_params, opt_params, hidden, ep_i,
                   observations, actions, rewards, dones, done, callStartOnline,
                   mem_length, current_step, current_cue, seed, draws, explored>>
    /\ UNCHANGED bufVars
    /\ UNCHANGED <<trVars, swVars, evVars, coVars>>

NextR2D2 == TrainBegin \/ EpisodeReset \/ EnvStep \/ AddStep \/ LearnRound

SpecR2D2 == R2D2Init /\ [][NextR2D2]_vars

(* ------------------- claims about the R2D2 learner --------------------- *)
\* a train() call has returned and the number of calls made is a multiple
\* of sync_interval
ReturnedFromSyncCall ==
    /\ r2_pc = "idle"
    /\ iterations > 0
    /\ iterations % sync_interval = 0

\* C3 as stated: after sync_interval calls to train(), and after every
\* further multiple, the target parameters equal the online parameters.
C3_TargetEqualsOnlineAfterCalls == ReturnedFromSyncCall => Target = Online

\* C3 as amended: in the call whose number is a multiple of sync_interval the
\* target parameters become a copy of the online parameters as that call
\* found them, before any rollout or gradient step of the call; they equal
\* the online parameters until the call's first gradient step and keep the
\* copied value when the call returns.
C3_TargetEqualsOnlineAtSync ==
    (iterations > 0 /\ iterations % sync_interval = 0) =>
        /\ Target = callStartOnline
        /\ b_i = 0 => Target = Online

\* the second sync call has returned, its gradient steps moved the online
\* parameters away from the copy
C3_Witness ==
    /\ ReturnedFromSyncCall
    /\ sync_interval = 2
    /\ iterations = 2 * sync_interval
    /\ Target = callStartOnline
    /\ Target # Online

\* C4: between two synchronizations the target parameters never change: every
\* step of train() other than the sync leaves them as they are, whatever
\* happens to the online parameters.
C4_TargetFixedBetweenSyncs ==
    [][(~(iterations' = iterations + 1 /\ SyncDue(iterations'))) => Target' = Target]_vars

\* after a sync, in a call that does not sync, a gradient step has changed the
\* online parameters and the target still holds the copy
C4_Witness ==
    /\ iterations > sync_interval
    /\ iterations % sync_interval # 0
    /\ b_i >= 1
    /\ Online # callStartOnline
    /\ Target # Online

\* C14: train() never calls ReplayBuffer.sample while the buffer holds no
\* episode: whenever the learner is about to sample, at least one episode is
\* stored, and no sample call of train() has failed on an empty buffer.
C14_NeverSamplesEmptyBuffer ==
    /\ r2_pc = "learn" => Len(rb_actions) >= 1
    /\ r2_error # "ValueError"

\* C16: each train() call first increments the call counter by exactly 1,
\* then copies the online parameters into the target network if and only if
\* the new counter is a multiple of sync_interval, then rolls out and adds
\* exactly num_episodes episodes, then performs exactly num_batches
\* sample-and-gradient-step rounds; the sync of a call comes before all its
\* gradient steps, and a call that returns has done all of it.
C16_TrainStepsInOrder ==
    /\ [](/\ r2_pc \in {"reset", "act", "add"} =>
                /\ b_i = 0
                /\ ep_i < num_episodes
                /\ Online = (IF SyncDue(iterations) THEN Target ELSE callStartOnline)
          /\ r2_pc = "learn" =>
                /\ ep_i = num_episodes
                /\ b_i < num_batches
          /\ r2_pc \in {"reset", "act", "add", "learn"} =>
                Len(added) = (iterations - 1) * num_episodes + ep_i
          /\ (r2_pc = "idle" /\ iterations > 0) =>
                /\ ep_i = num_episodes
                /\ b_i = num_batches
                /\ Len(added) = iterations * num_episodes)
    /\ [][/\ iterations' # iterations =>
                /\ r2_pc = "idle"
                /\ iterations' = iterations + 1
                /\ b_i' = 0 /\ ep_i' = 0
                /\ Online' = Online
                /\ Target' = (IF SyncDue(iterations') THEN Online ELSE Target)
          /\ iterations' = iterations =>
                /\ Target' = Target
                /\ r2_pc # "idle"
          /\ Online' # Online => (r2_pc = "learn" /\ b_i' = b_i + 1)
          /\ b_i' = b_i + 1 => (r2_pc = "learn" /\ rb_obs' = rb_obs)
          /\ ep_i' = ep_i + 1 =>
                /\ r2_pc = "add"
                /\ Len(added') = Len(added) + 1
                /\ added'[Len(added')].obs = observations
          /\ rb_obs' # rb_obs => ep_i' = ep_i + 1]_vars

\* the call numbered 2 * sync_interval has returned: it synced, rolled out two
\* episodes and took two gradient steps, which moved the online parameters
\* away from the copy
C16_Witness ==
    /\ r2_pc = "idle"
    /\ sync_interval = 2
    /\ iterations = 4
    /\ num_episodes = 2
    /\ num_batches = 2
    /\ ep_i = 2
    /\ b_i = 2
    /\ Len(added) = 8
    /\ Target = callStartOnline
    /\ Online # Target

\* an episode with one more observation than actions, rewards and done
\* flags, at least one transition, and a single True done flag, the last
WellFormedEpisode(ep) ==
    /\ Len(ep.actions) >= 1
    /\ Len(ep.obs) = Len(ep.actions) + 1
    /\ Len(ep.rewards) = Len(ep.actions)
    /\ Len(ep.dones) = Len(ep.actions)
    /\ \A i \in DOMAIN ep.dones : ep.dones[i] = (i = Len(ep.dones))

\* C19: every episode train() adds to the replay buffer has
\* len(observations) = len(actions) + 1 = len(rewards) + 1 = len(dones) + 1
\* with at least one transition, and its done flags are False at every step
\* except the last, which is True.
C19_AddedEpisodesWellFormed ==
    /\ \A k \in DOMAIN added : WellFormedEpisode(added[k])
    /\ r2_pc = "add" =>
          WellFormedEpisode([obs |-> observations, actions |-> actions,
                             rewards |-> rewards, dones |-> dones])
    /\ r2_pc = "act" =>
          /\ Len(observations) = Len(actions) + 1
          /\ \A i \in DOMAIN dones : ~dones[i]

\* an episode of two transitions is about to be added after an earlier one
C19_Witness ==
    /\ r2_pc = "add"
    /\ Len(added) >= 1
    /\ dones = <<FALSE, TRUE>>
    /\ Len(observations) = 3
    /\ Len(rewards) = 2

(* ------------------------------ Stopwatch ------------------------------ *)
\* self._started is None
None == -1

\* Stopwatch.__init__
SwNew == [started |-> None, elapsed |-> 0]

\* A start that moves the start time of a running stopwatch.
SwStartAlways(sw, now) == [sw EXCEPT !.started = now]

\* A start that discards the accumulated time.
SwStartFresh(sw, now) == [started |-> now, elapsed |-> 0]

\* Stopwatch.start at time now
SwStart(sw, now) ==
    IF sw.started = None THEN [sw EXCEPT !.started = now] ELSE sw

\* Stopwatch.restart at time now
SwRestart(sw, now) == [started |-> now, elapsed |-> 0]

\* Stopwatch.stop at time now
SwStop(sw, now) ==
    IF sw.started # None
    THEN [started |-> None, elapsed |-> sw.elapsed + (now - sw.started)]
    ELSE sw

\* Stopwatch.reset
SwReset(sw) == [started |-> None, elapsed |-> 0]

\* Stopwatch.elapsed
SwElapsed(sw) == sw.elapsed

(* ------------------- sampler, learners and policies -------------------- *)
\* the agent identifiers of the environment: obs_space.keys()
Agents == 1..NumAgents

RECURSIVE SumSeq(_)
SumSeq(q) == IF q = <<>> THEN 0 ELSE Head(q) + SumSeq(Tail(q))

\* the smallest element: dictionaries are walked in insertion order
First(S) == CHOOSE x \in S : \A y \in S : x <= y

\* sample(env, policies, num_episodes, max_steps): the episodes returned for
\* every agent when the episodes played take lens[k] steps each.  Every
\* episode records the environment and policies it was played with.
SamplerEpisodes(env, policies, iter, lens) ==
    [id \in Agents |->
        [k \in 1..Len(lens) |->
            [env |-> env, policies |-> policies, iter |-> iter,
             agent |-> id, k |-> k, len |-> lens[k]]]]

\* sample(...): the statistics returned
SamplerStats(lens) == [episodes |-> Len(lens), samples |-> SumSeq(lens)]

\* the step counts the sampler may produce: an episode ends at its first step
\* or is cut at max_steps
EpisodeLengths(n) == [1..n -> {1, max_steps}]

\* the time a sampler or learn() call takes on the clock: none that
\* time.time() can measure, or the longest explored
Durations == {0, MaxTick}

\* learner_cls(obs_space[id], action_space[id], learner_config)
NewLearner(id) == [params |-> 0]

\* learner.make_policy(eval): a policy that has received no update yet
MakePolicy(l, eval) == [eval |-> eval, params |-> None]

\* learner.get_update(eval)
GetUpdate(l, eval) == [eval |-> eval, params |-> l.params]

\* policy.update(update)
PolicyUpdate(pol, update) == [pol EXCEPT !.params = update.params]

\* learner.learn(episodes): the learner after the call
Learn(l, episodes) == [l EXCEPT !.params = @ + 1]

(* ------------------------------ result mapping ------------------------- *)
\* "sampling/<name>", "learning/<agent>/<name>", "eval/<name>" and "<name>"
Key(ns, agent, name) == [ns |-> ns, agent |-> agent, name |-> name]

EmptyMap == [k \in {} |-> 0]

Put(map, k, v) == [x \in DOMAIN map \cup {k} |-> IF x = k THEN v ELSE map[x]]

\* for key, value in batch_stats.items(): stats[prefix + key] = value
PutAll(map, ns, agent, st) ==
    [x \in DOMAIN map \cup {Key(ns, agent, n) : n \in DOMAIN st} |->
        IF x.ns = ns /\ x.agent = agent /\ x.name \in DOMAIN st
        THEN st[x.name] ELSE map[x]]

(* ------------------------ IndependentTrainer.__init__ ------------------ *)
\* the accumulated statistics of the trainer
Totals ==
    [total_iterations |-> total_iterations,
     total_episodes |-> total_episodes,
     total_samples |-> total_samples,
     total_sampling_time |-> total_sampling_time,
     total_learning_time |-> total_learning_time]

TrainerInit ==
    /\ cfg_has_env \in BOOLEAN
    /\ cfg_has_learner \in BOOLEAN
    /\ iteration_episodes = MaxIterEpisodes
    /\ eval_episodes = MaxEvalEpisodes
    /\ max_steps = MaxSteps
    /\ env_built = FALSE
    /\ eval_env_built = FALSE
    /\ learners = EmptyMap
    /\ training_policies = EmptyMap
    /\ eval_policies = EmptyMap
    /\ timer = SwNew
    /\ total_iterations = 0
    /\ total_episodes = 0
    /\ total_samples = 0
    /\ total_sampling_time = 0
    /\ total_learning_time = 0
    /\ ctor_pc = "env_check"
    /\ ctor_error = "none"
    /\ t_pc = "none"
    /\ t_error = "none"
    /\ watch = SwNew
    /\ t_batch = EmptyMap
    /\ t_batch_stats = EmptyMap
    /\ stats = EmptyMap
    /\ pending = {}
    /\ result = EmptyMap
    /\ clock = 0
    /\ env_steps = [env |-> 0, eval_env |-> 0]
    /\ sample_calls = <<>>
    /\ learn_calls = [id \in Agents |-> <<>>]
    /\ pre = [total_iterations |-> 0, total_episodes |-> 0, total_samples |-> 0,
              total_sampling_time |-> 0, total_learning_time |-> 0]
    /\ pre_params = EmptyMap
    /\ prev_result = EmptyMap

\* A check that lets a config without 'learner' through.
LearnerMissingIgnored == FALSE

\* "env" not in config
EnvMissing == ~cfg_has_env

\* "learner" not in config
LearnerMissing == ~cfg_has_learner

\* __init__: the 'env' check and the two environments
CtorEnv ==
    /\ ctor_pc = "env_check"
    /\ IF EnvMissing
       THEN /\ ctor_pc' = "raised"
            /\ ctor_error' = "ValueError"
            /\ UNCHANGED <<env_built, eval_env_built>>
       ELSE /\ env_built' = TRUE
            /\ eval_env_built' = TRUE
            /\ ctor_pc' = "learner_check"
            /\ UNCHANGED ctor_error
    /\ UNCHANGED <<cfg_has_env, cfg_has_learner, iteration_episodes, eval_episodes,
                   max_steps, learners, training_policies, eval_policies, timer,
                   total_iterations, total_episodes, total_samples,
                   total_sampling_time, total_learning_time, t_pc, t_error, watch,
                   t_batch, t_batch_stats, stats, pending, result, clock, env_steps,
                   sample_calls, learn_calls, pre>>
    /\ UNCHANGED <<bufVars, r2Vars, swVars, evVars, coVars, pre_params, prev_result>>

\* __init__: the 'learner' check
CtorLearnerCheck ==
    /\ ctor_pc = "learner_check"
    /\ IF LearnerMissing
       THEN /\ ctor_pc' = "raised"
            /\ ctor_error' = "ValueError"
       ELSE /\ ctor_pc' = "learners"
            /\ UNCHANGED ctor_error
    /\ UNCHANGED <<cfg_has_env, cfg_has_learner, iteration_episodes, eval_episodes,
                   max_steps, env_built, eval_env_built, learners,
                   training_policies, eval_policies, timer, total_iterations,
                   total_episodes, total_samples, total_sampling_time,
                   total_learning_time, t_pc, t_error, watch, t_batch,
                   t_batch_stats, stats, pending, result, clock, env_steps,
                   sample_calls, learn_calls, pre>>
    /\ UNCHANGED <<bufVars, r2Vars, swVars, evVars, coVars, pre_params, prev_result>>

\* __init__: one turn of the loop that creates the learners
CtorLearner ==
    /\ ctor_pc = "learners"
    /\ LET id == First(Agents \ DOMAIN learners)
       IN  /\ learners' = Put(learners, id, NewLearner(id))
           /\ ctor_pc' = IF DOMAIN learners' = Agents THEN "policies" ELSE "learners"
    /\ UNCHANGED <<cfg_has_env, cfg_has_learner, iteration_episodes, eval_episodes,
                   max_steps, env_built, eval_env_built, training_policies,
                   eval_policies, timer, total_iterations, total_episodes,
                   total_samples, total_sampling_time, total_learning_time,
                   ctor_error, t_pc, t_error, watch, t_batch, t_batch_stats, stats,
                   pending, result, clock, env_steps, sample_calls, learn_calls, pre>>
    /\ UNCHANGED <<bufVars, r2Vars, swVars, evVars, coVars, pre_params, prev_result>>

\* __init__: one turn of the loop that creates the policies; after the last
\* one the timer and the zeroed statistics
CtorPolicies ==
    /\ ctor_pc = "policies"
    /\ LET id == First(DOMAIN learners \ DOMAIN training_policies)
       IN  /\ training_policies' = Put(training_policies, id, MakePolicy(learners[id], FALSE))
           /\ eval_policies' = Put(eval_policies, id, MakePolicy(learners[id], TRUE))
           /\ IF DOMAIN training_policies' = DOMAIN learners
              THEN /\ timer' = SwNew
                   /\ total_iterations' = 0
                   /\ total_episodes' = 0
                   /\ total_samples' = 0
                   /\ total_sampling_time' = 0
                   /\ total_learning_time' = 0
                   /\ ctor_pc' = "constructed"
                   /\ t_pc' = "idle"
              ELSE UNCHANGED <<timer, total_iterations, total_episodes,
                               total_samples, total_sampling_time,
                               total_learning_time, ctor_pc, t_pc>>
    /\ UNCHANGED <<cfg_has_env, cfg_has_learner, iteration_episodes, eval_episodes,
                   max_steps, env_built, eval_env_built, learners, ctor_error,
                   t_error, watch, t_batch, t_batch_stats, stats, pending, result,
                   clock, env_steps, sample_calls, learn_calls, pre>>
    /\ UNCHANGED <<bufVars, r2Vars, swVars, evVars, coVars, pre_params, prev_result>>

(* ------------------------ IndependentTrainer.train --------------------- *)
\* the arguments of the two sampler calls of train()
TrainSampleArgs ==
    [env |-> "env", policies |-> "training_policies",
     num_episodes |-> iteration_episodes, max_steps |-> max_steps]

\* An evaluation run on the training environment with the training policies.
EvalSampleArgsTraining ==
    [env |-> "env", policies |-> "training_policies",
     num_episodes |-> eval_episodes, max_steps |-> max_steps]

EvalSampleArgs ==
    [env |-> "eval_env", policies |-> "eval_policies",
     num_episodes |-> eval_episodes, max_steps |-> max_steps]

\* A count of the wrong statistic.
BookedEpisodesWrongKey == t_batch_stats.samples

\* what train() adds to self._total_episodes and self._total_samples
BookedEpisodes == t_batch_stats.episodes
BookedSamples == t_batch_stats.samples

\* A learner handed the episodes of the agent after it.
LearnArgNeighbour(id) == t_batch[(id % NumAgents) + 1]

\* the episodes train() hands to the learner of agent id
LearnArg(id) == t_batch[id]

\* the statistics a learn() call returns
LearnStats(l) == [loss |-> l.params]

\* the keys of the result under which train() reports accumulated values
TotalKeys ==
    {Key("", 0, "total_iterations"), Key("", 0, "total_episodes"),
     Key("", 0, "total_samples"), Key("sampling", 0, "total_time_s"),
     Key("learning", 0, "total_time_s"), Key("", 0, "total_time_s")}

\* Training policies that are left as they were.
StaleTrainingPolicies == training_policies

\* for id, learner in self._learners.items():
\*     self._training_policies[id].update(learner.get_update())
UpdatedTrainingPolicies ==
    [id \in DOMAIN learners |->
        PolicyUpdate(training_policies[id], GetUpdate(learners[id], FALSE))]

\* train(): the timers and the update of the training policies.  train() can
\* be called again after a call that raised.
TrainStart ==
    /\ t_pc \in {"idle", "failed"}
    /\ total_iterations < MaxTrainerCalls
    /\ timer' = SwStart(timer, clock)
    /\ watch' = SwNew
    /\ training_policies' = UpdatedTrainingPolicies
    /\ t_error' = "none"
    /\ pending' = {}
    /\ pre_params' = [id \in DOMAIN learners |-> learners[id].params]
    /\ prev_result' = IF result # EmptyMap
                      THEN [k \in TotalKeys |-> result[k]]
                      ELSE prev_result
    /\ stats' = EmptyMap
    /\ t_batch' = EmptyMap
    /\ t_batch_stats' = EmptyMap
    /\ result' = EmptyMap
    /\ pre' = Totals
    /\ env_steps' = [env |-> 0, eval_env |-> 0]
    /\ sample_calls' = <<>>
    /\ learn_calls' = [id \in Agents |-> <<>>]
    /\ t_pc' = "sample"
    /\ UNCHANGED <<cfg_has_env, cfg_has_learner, iteration_episodes, eval_episodes,
                   max_steps, env_built, eval_env_built, learners, eval_policies,
                   total_iterations, total_episodes, total_samples, total_sampling_time,
                   total_learning_time, ctor_pc, ctor_error, clock>>
    /\ UNCHANGED <<bufVars, r2Vars, swVars, evVars, coVars>>

\* train(): the training batch is sampled between watch.restart() and
\* watch.stop()
SampleTraining ==
    /\ t_pc = "sample"
    /\ \E lens \in EpisodeLengths(TrainSampleArgs.num_episodes), d \in Durations :
          /\ watch' = SwStop(SwRestart(watch, clock), clock + d)
          /\ clock' = clock + d
          /\ t_batch' = SamplerEpisodes(TrainSampleArgs.env, TrainSampleArgs.policies,
                                        total_iterations + 1, lens)
          /\ t_batch_stats' = SamplerStats(lens)
          /\ env_steps' = [env_steps EXCEPT ![TrainSampleArgs.env] = @ + SumSeq(lens)]
    /\ sample_calls' = Append(sample_calls, TrainSampleArgs)
    /\ t_pc' = "book"
    /\ UNCHANGED <<cfg_has_env, cfg_has_learner, iteration_episodes, eval_episodes,
                   max_steps, env_built, eval_env_built, learners, training_policies,
                   eval_policies, timer, total_iterations, total_episodes, total_samples,
                   total_sampling_time, total_learning_time, ctor_pc, ctor_error,
                   t_error, stats, pending, result, learn_calls, pre>>
    /\ UNCHANGED <<bufVars, r2Vars, swVars, evVars, coVars, pre_params, prev_result>>

\* train(): the training sampler raises
SampleTrainingRaises ==
    /\ t_pc = "sample"
    /\ watch' = SwRestart(watch, clock)
    /\ sample_calls' = Append(sample_calls, TrainSampleArgs)
    /\ t_pc' = "failed"
    /\ t_error' = "training sampler"
    /\ UNCHANGED <<cfg_has_env, cfg_has_learner, iteration_episodes, eval_episodes,
                   max_steps, env_built, eval_env_built, learners, training_policies,
                   eval_policies, timer, total_iterations, total_episodes, total_samples,
                   total_sampling_time, total_learning_time, ctor_pc, ctor_error,
                   t_batch, t_batch_stats, stats, pending, result, clock, env_steps,
                   learn_calls, pre>>
    /\ UNCHANGED <<bufVars, r2Vars, swVars, evVars, coVars, pre_params, prev_result>>

\* train(): the sampling statistics and the accumulated totals, then
\* watch.reset() and the head of the learning loop
Bookkeeping ==
    /\ t_pc = "book"
    /\ IF SwElapsed(watch) = 0
       THEN \* batch_stats["episodes"] / watch.elapsed() raises ZeroDivisionError
            /\ stats' = PutAll(stats, "sampling", 0, t_batch_stats)
            /\ t_pc' = "failed"
            /\ t_error' = "ZeroDivisionError"
            /\ UNCHANGED <<total_sampling_time, total_iterations, total_episodes,
                           total_samples, watch, pending>>
       ELSE /\ total_sampling_time' = total_sampling_time + SwElapsed(watch)
            /\ total_iterations' = total_iterations + 1
            /\ total_episodes' = total_episodes + BookedEpisodes
            /\ total_samples' = total_samples + BookedSamples
            /\ stats' =
                  LET s1 == PutAll(stats, "sampling", 0, t_batch_stats)
                      s2 == Put(s1, Key("sampling", 0, "episodes_per_s"),
                                <<t_batch_stats.episodes, SwElapsed(watch)>>)
                      s3 == Put(s2, Key("sampling", 0, "samples_per_s"),
                                <<t_batch_stats.samples, SwElapsed(watch)>>)
                      s4 == Put(s3, Key("sampling", 0, "total_time_s"), total_sampling_time')
                      s5 == Put(s4, Key("", 0, "total_iterations"), total_iterations')
                      s6 == Put(s5, Key("", 0, "total_episodes"), total_episodes')
                  IN  Put(s6, Key("", 0, "total_samples"), total_samples')
            /\ watch' = SwReset(watch)
            /\ pending' = DOMAIN t_batch
            /\ t_pc' = "learn"
            /\ UNCHANGED t_error
    /\ UNCHANGED <<cfg_has_env, cfg_has_learner, iteration_episodes, eval_episodes,
                   max_steps, env_built, eval_env_built, learners, training_policies,
                   eval_policies, timer, total_learning_time, ctor_pc, ctor_error,
                   t_batch, t_batch_stats, result, clock, env_steps, sample_calls,
                   learn_calls, pre>>
    /\ UNCHANGED <<bufVars, r2Vars, swVars, evVars, coVars, pre_params, prev_result>>

\* train(): one turn of the learning loop
LearnOne ==
    /\ t_pc = "learn"
    /\ pending # {}
    /\ LET id == First(pending)
       IN  \E d \in Durations :
              /\ learn_calls' = [learn_calls EXCEPT ![id] = Append(@, LearnArg(id))]
              /\ learners' = [learners EXCEPT ![id] = Learn(@, LearnArg(id))]
              /\ watch' = SwStop(SwStart(watch, clock), clock + d)
              /\ clock' = clock + d
              /\ stats' = PutAll(stats, "learning", id, LearnStats(learners'[id]))
              /\ pending' = pending \ {id}
    /\ UNCHANGED <<cfg_has_env, cfg_has_learner, iteration_episodes, eval_episodes,
                   max_steps, env_built, eval_env_built, training_policies,
                   eval_policies, timer, total_iterations, total_episodes, total_samples,
                   total_sampling_time, total_learning_time, ctor_pc, ctor_error, t_pc,
                   t_error, t_batch, t_batch_stats, result, env_steps, sample_calls, pre>>
    /\ UNCHANGED <<bufVars, r2Vars, swVars, evVars, coVars, pre_params, prev_result>>

\* A failure handler that puts the statistics back.
LearnRaisesRolledBack ==
    /\ t_pc = "learn"
    /\ pending # {}
    /\ LET id == First(pending)
       IN  learn_calls' = [learn_calls EXCEPT ![id] = Append(@, LearnArg(id))]
    /\ watch' = SwStart(watch, clock)
    /\ total_iterations' = pre.total_iterations
    /\ total_episodes' = pre.total_episodes
    /\ total_samples' = pre.total_samples
    /\ total_sampling_time' = pre.total_sampling_time
    /\ t_pc' = "failed"
    /\ t_error' = "learn"
    /\ UNCHANGED <<cfg_has_env, cfg_has_learner, iteration_episodes, eval_episodes,
                   max_steps, env_built, eval_env_built, learners, training_policies,
                   eval_policies, timer, total_learning_time, ctor_pc, ctor_error,
                   t_batch, t_batch_stats, stats, pending, result, clock, env_steps,
                   sample_calls, pre>>
    /\ UNCHANGED <<bufVars, r2Vars, swVars, evVars, coVars, pre_params, prev_result>>

\* train(): learn() raises; nothing in train() catches it
LearnRaises ==
    /\ t_pc = "learn"
    /\ pending # {}
    /\ LET id == First(pending)
       IN  learn_calls' = [learn_calls EXCEPT ![id] = Append(@, LearnArg(id))]
    /\ watch' = SwStart(watch, clock)
    /\ t_pc' = "failed"
    /\ t_error' = "learn"
    /\ UNCHANGED <<cfg_has_env, cfg_has_learner, iteration_episodes, eval_episodes,
                   max_steps, env_built, eval_env_built, learners, training_policies,
                   eval_policies, timer, total_iterations, total_episodes, total_samples,
                   total_sampling_time, total_learning_time, ctor_pc, ctor_error,
                   t_batch, t_batch_stats, stats, pending, result, clock, env_steps,
                   sample_calls, pre>>
    /\ UNCHANGED <<bufVars, r2Vars, swVars, evVars, coVars, pre_params, prev_result>>

\* train(): the learning time, then the update of the eval policies
LearnDone ==
    /\ t_pc = "learn"
    /\ pending = {}
    /\ total_learning_time' = total_learning_time + SwElapsed(watch)
    /\ stats' = Put(stats, Key("learning", 0, "total_time_s"), total_learning_time')
    /\ eval_policies' =
          [id \in DOMAIN learners |->
              PolicyUpdate(eval_policies[id], GetUpdate(learners[id], TRUE))]
    /\ t_pc' = "eval"
    /\ UNCHANGED <<cfg_has_env, cfg_has_learner, iteration_episodes, eval_episodes,
                   max_steps, env_built, eval_env_built, learners, training_policies,
                   timer, total_iterations, total_episodes, total_samples,
                   total_sampling_time, ctor_pc, ctor_error, t_error, watch, t_batch,
                   t_batch_stats, pending, result, clock, env_steps, sample_calls,
                   learn_calls, pre>>
    /\ UNCHANGED <<bufVars, r2Vars, swVars, evVars, coVars, pre_params, prev_result>>

\* train(): the update of an eval policy raises
UpdateEvalRaises ==
    /\ t_pc = "learn"
    /\ pending = {}
    /\ total_learning_time' = total_learning_time + SwElapsed(watch)
    /\ stats' = Put(stats, Key("learning", 0, "total_time_s"), total_learning_time')
    /\ t_pc' = "failed"
    /\ t_error' = "eval policy update"
    /\ UNCHANGED <<cfg_has_env, cfg_has_learner, iteration_episodes, eval_episodes,
                   max_steps, env_built, eval_env_built, learners, training_policies,
                   eval_policies, timer, total_iterations, total_episodes, total_samples,
                   total_sampling_time, ctor_pc, ctor_error, watch, t_batch,
                   t_batch_stats, pending, result, clock, env_steps, sample_calls,
                   learn_calls, pre>>
    /\ UNCHANGED <<bufVars, r2Vars, swVars, evVars, coVars, pre_params, prev_result>>

\* train(): the evaluation episodes, whose batch is dropped, then the total
\* time and the return of the result
SampleEval ==
    /\ t_pc = "eval"
    /\ \E lens \in EpisodeLengths(EvalSampleArgs.num_episodes), d \in Durations :
          /\ clock' = clock + d
          /\ env_steps' = [env_steps EXCEPT ![EvalSampleArgs.env] = @ + SumSeq(lens)]
          /\ timer' = SwStop(timer, clock + d)
          /\ stats' = Put(PutAll(stats, "eval", 0, SamplerStats(lens)),
                          Key("", 0, "total_time_s"), SwElapsed(timer'))
    /\ sample_calls' = Append(sample_calls, EvalSampleArgs)
    /\ result' = stats'
    /\ t_pc' = "idle"
    /\ UNCHANGED <<cfg_has_env, cfg_has_learner, iteration_episodes, eval_episodes,
                   max_steps, env_built, eval_env_built, learners, training_policies,
                   eval_policies, total_iterations, total_episodes, total_samples,
                   total_sampling_time, total_learning_time, ctor_pc, ctor_error,
                   t_error, watch, t_batch, t_batch_stats, pending, learn_calls, pre>>
    /\ UNCHANGED <<bufVars, r2Vars, swVars, evVars, coVars, pre_params, prev_result>>

\* train(): the evaluation sampler raises
SampleEvalRaises ==
    /\ t_pc = "eval"
    /\ sample_calls' = Append(sample_calls, EvalSampleArgs)
    /\ t_pc' = "failed"
    /\ t_error' = "eval sampler"
    /\ UNCHANGED <<cfg_has_env, cfg_has_learner, iteration_episodes, eval_episodes,
                   max_steps, env_built, eval_env_built, learners, training_policies,
                   eval_policies, timer, total_iterations, total_episodes, total_samples,
                   total_sampling_time, total_learning_time, ctor_pc, ctor_error, watch,
                   t_batch, t_batch_stats, stats, pending, result, clock, env_steps,
                   learn_calls, pre>>
    /\ UNCHANGED <<bufVars, r2Vars, swVars, evVars, coVars, pre_params, prev_result>>

NextTrainer ==
    \/ CtorEnv \/ CtorLearnerCheck \/ CtorLearner \/ CtorPolicies
    \/ TrainStart \/ SampleTraining \/ SampleTrainingRaises \/ Bookkeeping
    \/ LearnOne \/ LearnRaises \/ LearnDone \/ UpdateEvalRaises
    \/ SampleEval \/ SampleEvalRaises

InitTrainer ==
    /\ TrainerInit
    /\ BufferInit(1)
    /\ NoLearner
    /\ NoStopwatch
    /\ NoEvaluate
    /\ NoRollout

SpecTrainer == InitTrainer /\ [][NextTrainer]_vars

(* ------------------- claims about the trainer -------------------------- *)
\* a train() call has run to its return statement
TrainReturned == t_pc = "idle" /\ total_iterations > 0

\* train() failed in learn(), in the update of an eval policy or in the
\* evaluation sampler
FailedAfterSampling ==
    /\ t_pc = "failed"
    /\ t_error \in {"learn", "eval policy update", "eval sampler"}

\* C5: every completed train() call increases total_iterations by exactly 1
\* and total_episodes and total_samples by exactly the counts the training
\* sampler reported; the evaluation episodes and samples add nothing.
C5_TotalsGrowByTrainingBatch ==
    TrainReturned =>
        /\ total_iterations = pre.total_iterations + 1
        /\ total_episodes = pre.total_episodes + t_batch_stats.episodes
        /\ total_samples = pre.total_samples + t_batch_stats.samples
        /\ result[Key("", 0, "total_iterations")] = total_iterations
        /\ result[Key("", 0, "total_episodes")] = total_episodes
        /\ result[Key("", 0, "total_samples")] = total_samples

\* the second call has returned; it sampled more steps than episodes and its
\* evaluation run played an episode
C5_Witness ==
    /\ TrainReturned
    /\ total_iterations = 2
    /\ t_batch_stats.samples > t_batch_stats.episodes
    /\ result[Key("eval", 0, "episodes")] >= 1

\* C6: in every train() call each agent's learner has learn() invoked exactly
\* once, with exactly the episodes the training sampler returned under that
\* agent's identifier in this iteration; no learner receives another agent's
\* episodes.
C6_LearnOncePerAgentOwnEpisodes ==
    t_pc \in {"learn", "eval", "idle", "failed"} =>
        /\ \A id \in Agents :
              /\ Len(learn_calls[id]) <= 1
              /\ \A i \in DOMAIN learn_calls[id] :
                    /\ learn_calls[id][i] = t_batch[id]
                    /\ \A k \in DOMAIN learn_calls[id][i] :
                          /\ learn_calls[id][i][k].agent = id
                          /\ learn_calls[id][i][k].iter = pre.total_iterations + 1
        /\ (t_pc = "eval" \/ TrainReturned) =>
              \A id \in DOMAIN learners : Len(learn_calls[id]) = 1

\* a call has returned in which both learners learned from two episodes each
C6_Witness ==
    /\ TrainReturned
    /\ \A id \in Agents :
          /\ Len(learn_calls[id]) = 1
          /\ Len(learn_calls[id][1]) = 2
    /\ learn_calls[1][1] # learn_calls[2][1]

\* C7: the episodes of the evaluation phase are never passed to a learner: the
\* learners only ever see episodes the training sampler produced in the same
\* iteration, and the evaluation step invokes no learner, steps only the
\* evaluation environment with the eval policies, and touches no result key
\* outside eval/* (train() itself then adds total_time_s).
C7_EvalIsolated ==
    /\ [](t_pc \in {"learn", "eval", "idle", "failed"} =>
            \A id \in Agents : \A i \in DOMAIN learn_calls[id] :
                \A k \in DOMAIN learn_calls[id][i] :
                    /\ learn_calls[id][i][k].env = "env"
                    /\ learn_calls[id][i][k].policies = "training_policies"
                    /\ learn_calls[id][i][k].iter = pre.total_iterations + 1)
    /\ [][t_pc = "eval" =>
            /\ learners' = learners
            /\ learn_calls' = learn_calls
            /\ t_batch' = t_batch
            /\ env_steps'.env = env_steps.env
            /\ \A i \in DOMAIN sample_calls' \ DOMAIN sample_calls :
                  /\ sample_calls'[i].env = "eval_env"
                  /\ sample_calls'[i].policies = "eval_policies"
            /\ \A k \in DOMAIN stats' :
                  (k.ns # "eval" /\ k # Key("", 0, "total_time_s")) =>
                      (k \in DOMAIN stats /\ stats'[k] = stats[k])]_vars

\* two calls have returned, each evaluation run stepped the evaluation
\* environment, and every learner has learned exactly twice
C7_Witness ==
    /\ TrainReturned
    /\ total_iterations = 2
    /\ env_steps.eval_env >= 1
    /\ env_steps.env = t_batch_stats.samples
    /\ \A id \in Agents : learners[id].params = 2

\* C9 as stated: when train() fails after the training sampler has returned,
\* the accumulated statistics hold the values they had before the call.
C9_TotalsAsBeforeFailedCall ==
    FailedAfterSampling =>
        /\ total_iterations = pre.total_iterations
        /\ total_episodes = pre.total_episodes
        /\ total_samples = pre.total_samples
        /\ total_sampling_time = pre.total_sampling_time
        /\ total_learning_time = pre.total_learning_time

\* C9 as amended: when train() fails in learn(), in an eval policy update or
\* in the evaluation sampler, total_iterations, total_episodes, total_samples
\* and the sampling time already include the failed call; the learning time
\* has its old value after a failure in learn() and includes the call's
\* learning time after a later failure.
C9_TotalsKeepFailedCall ==
    FailedAfterSampling =>
        /\ total_iterations = pre.total_iterations + 1
        /\ total_episodes = pre.total_episodes + t_batch_stats.episodes
        /\ total_samples = pre.total_samples + t_batch_stats.samples
        /\ total_sampling_time > pre.total_sampling_time
        /\ total_sampling_time = stats[Key("sampling", 0, "total_time_s")]
        /\ total_learning_time =
              IF t_error = "learn" THEN pre.total_learning_time
              ELSE pre.total_learning_time + SwElapsed(watch)

\* the second call failed in learn() with the first call's totals grown
C9_Witness ==
    /\ FailedAfterSampling
    /\ t_error = "learn"
    /\ pre.total_iterations = 1
    /\ total_iterations = 2
    /\ total_episodes > pre.total_episodes

\* C10: a config without 'env' or without 'learner' makes __init__ raise
\* ValueError before any learner or policy exists; construction never
\* completes and no train() can run.
C10_MissingKeyRaises ==
    (~cfg_has_env \/ ~cfg_has_learner) =>
        /\ ctor_pc \in {"env_check", "learner_check", "raised"}
        /\ ctor_pc = "raised" => ctor_error = "ValueError"
        /\ ctor_pc = "learner_check" => cfg_has_env
        /\ DOMAIN learners = {}
        /\ DOMAIN training_policies = {}
        /\ DOMAIN eval_policies = {}
        /\ t_pc = "none"

\* a config with 'env' and without 'learner': the environments were built,
\* then __init__ raised
C10_Witness ==
    /\ cfg_has_env
    /\ ~cfg_has_learner
    /\ env_built
    /\ ctor_pc = "raised"
    /\ ctor_error = "ValueError"

\* the parameters every policy of the mapping carries are those of its
\* learner now
CarryLearnerParams(policies) ==
    \A id \in DOMAIN learners : policies[id].params = learners[id].params

\* C12: within each train() call the phases run strictly in this order, each
\* completing before the next starts: every training policy is updated from
\* its learner, the training sampler runs, every learner's learn() runs, every
\* eval policy is updated from its learner, the eval sampler runs.  The
\* training sampler of a call runs with policies carrying the learner
\* parameters as the previous learning left them, before any learn() of this
\* call; the eval sampler runs with policies carrying the parameters this
\* call's learning left.
C12_PhasesInOrder ==
    /\ [](/\ t_pc \in {"sample", "book", "learn", "eval"} \/ TrainReturned =>
                \A id \in DOMAIN learners :
                    training_policies[id].params = pre_params[id]
          /\ t_pc \in {"sample", "book"} =>
                /\ CarryLearnerParams(training_policies)
                /\ \A id \in Agents : learn_calls[id] = <<>>
          /\ t_pc = "sample" => sample_calls = <<>>
          /\ t_pc \in {"book", "learn", "eval"} => sample_calls = <<TrainSampleArgs>>
          /\ t_pc = "learn" =>
                \A id \in Agents :
                    /\ Len(learn_calls[id]) = (IF id \in pending THEN 0 ELSE 1)
                    /\ id \in pending => learners[id].params = pre_params[id]
          /\ t_pc = "eval" \/ TrainReturned =>
                /\ CarryLearnerParams(eval_policies)
                /\ \A id \in Agents :
                      /\ Len(learn_calls[id]) = 1
                      /\ learners[id].params # pre_params[id]
          /\ TrainReturned => sample_calls = <<TrainSampleArgs, EvalSampleArgs>>)
    /\ [][/\ t_pc' # t_pc =>
                \/ t_pc' = "failed"
                \/ <<t_pc, t_pc'>> \in {<<"none", "idle">>, <<"idle", "sample">>,
                                        <<"failed", "sample">>, <<"sample", "book">>,
                                        <<"book", "learn">>, <<"learn", "eval">>,
                                        <<"eval", "idle">>}
          /\ (ctor_pc = "constructed" /\ training_policies' # training_policies) =>
                (t_pc' = "sample" /\ t_pc # "sample")
          /\ learners' # learners => (t_pc = "learn" \/ ctor_pc = "learners")
          /\ (ctor_pc = "constructed" /\ eval_policies' # eval_policies) =>
                (t_pc = "learn" /\ t_pc' = "eval" /\ pending = {})]_vars

\* the evaluation sampler of the second call is about to run: the eval
\* policies carry what two rounds of learning left, the training policies
\* what the first round left
C12_Witness ==
    /\ t_pc = "eval"
    /\ total_iterations = 2
    /\ \A id \in Agents :
          /\ eval_policies[id].params = learners[id].params
          /\ training_policies[id].params = pre_params[id]
          /\ training_policies[id].params # eval_policies[id].params
          /\ training_policies[id].params # None

\* C15: across any sequence of train() calls on one trainer, total_iterations,
\* total_episodes, total_samples, the cumulative sampling time, the
\* cumulative learning time and total_time_s are each non-decreasing from one
\* returned result to the next, and once the trainer is constructed no step
\* of train(), completed or failed, lowers or zeroes an accumulated value.
C15_TotalsNeverDecrease ==
    /\ []((TrainReturned /\ prev_result # EmptyMap) =>
             \A k \in TotalKeys : result[k] >= prev_result[k])
    /\ [][ctor_pc = "constructed" =>
             /\ total_iterations' >= total_iterations
             /\ total_episodes' >= total_episodes
             /\ total_samples' >= total_samples
             /\ total_sampling_time' >= total_sampling_time
             /\ total_learning_time' >= total_learning_time
             /\ SwElapsed(timer') >= SwElapsed(timer)]_vars

\* two calls have returned; every accumulated value of the second result is
\* above that of the first, and the second call itself took less time than
\* the first
C15_Witness ==
    /\ TrainReturned
    /\ prev_result # EmptyMap
    /\ \A k \in TotalKeys : result[k] > prev_result[k]
    /\ result[Key("", 0, "total_time_s")] < 2 * prev_result[Key("", 0, "total_time_s")]
    /\ result[Key("", 0, "total_iterations")] = 2

(* ---------------------- SpecStopwatch: a Stopwatch alone --------------- *)
SwOps == {"start", "restart", "stop", "reset"}

\* one call on the stopwatch at time now
SwCall(op, watch0, now) ==
    IF op = "start" THEN SwStart(watch0, now)
    ELSE IF op = "restart" THEN SwRestart(watch0, now)
    ELSE IF op = "stop" THEN SwStop(watch0, now)
    ELSE SwReset(watch0)

InitStopwatch ==
    /\ stopwatch = SwNew
    /\ sw_now = 0
    /\ sw_calls = <<>>
    /\ BufferInit(1)
    /\ NoLearner
    /\ NoTrainer
    /\ NoEvaluate
    /\ NoRollout

\* the clock moves on, then one call is made
SwStep(op) ==
    /\ Len(sw_calls) < MaxSwCalls
    /\ \E d \in Durations :
          /\ sw_now' = sw_now + d
          /\ stopwatch' = SwCall(op, stopwatch, sw_now + d)
          /\ sw_calls' = Append(sw_calls, [op |-> op, at |-> sw_now + d])
    /\ UNCHANGED <<bufVars, r2Vars, trVars, evVars, coVars>>

CallStart == SwStep("start")
CallRestart == SwStep("restart")
CallStop == SwStep("stop")
CallReset == SwStep("reset")

NextStopwatch == CallStart \/ CallRestart \/ CallStop \/ CallReset

SpecStopwatch == InitStopwatch /\ [][NextStopwatch]_vars

(* ------------------- claims about the Stopwatch ------------------------ *)
\* whether the stopwatch runs after the first n calls of the log
Running(log, n) ==
    IF n = 0 THEN FALSE
    ELSE log[n].op \in {"start", "restart"}

\* the call that opened the run interval open after the first n calls: a
\* restart, or a start made while the stopwatch was not running
RECURSIVE OpenedBy(_, _)
OpenedBy(log, n) ==
    IF log[n].op = "restart" THEN n
    ELSE IF n > 1 /\ Running(log, n - 1) THEN OpenedBy(log, n - 1)
    ELSE n

\* the last reset or restart of the log, 0 if there is none
LastClear(log) ==
    Max({0} \cup {n \in DOMAIN log : log[n].op \in {"reset", "restart"}})

\* the run intervals closed by a stop since the last reset or restart, each
\* as the pair of calls that opened and closed it
ClosedIntervals(log) ==
    {<<OpenedBy(log, j - 1), j>> :
        j \in {n \in DOMAIN log : /\ log[n].op = "stop"
                                  /\ n > LastClear(log)
                                  /\ Running(log, n - 1)}}

RECURSIVE SumDurations(_, _)
SumDurations(log, S) ==
    IF S = {} THEN 0
    ELSE LET iv == CHOOSE x \in S : TRUE
         IN  (log[iv[2]].at - log[iv[1]].at) + SumDurations(log, S \ {iv})

\* C11: after any sequence of start/stop/restart/reset calls on a
\* non-decreasing clock, elapsed() is the sum of the durations of the run
\* intervals closed by stop since the last reset or restart; an interval
\* still open contributes nothing, and the stopwatch is running exactly when
\* the last call was a start or restart, with the start time of the call that
\* opened the interval.
C11_ElapsedIsSumOfClosedIntervals ==
    /\ SwElapsed(stopwatch) = SumDurations(sw_calls, ClosedIntervals(sw_calls))
    /\ stopwatch.started =
          IF Running(sw_calls, Len(sw_calls))
          THEN sw_calls[OpenedBy(sw_calls, Len(sw_calls))].at
          ELSE None

\* an interval has been closed since a restart, a start was made while the
\* stopwatch was running, and another interval is open
C11_Witness ==
    /\ Cardinality(ClosedIntervals(sw_calls)) >= 1
    /\ SwElapsed(stopwatch) > 0
    /\ LastClear(sw_calls) >= 1
    /\ \E n \in DOMAIN sw_calls :
          n > 1 /\ sw_calls[n].op = "start" /\ Running(sw_calls, n - 1)
    /\ stopwatch.started # None

(* ---------------------- SpecMain: train() and evaluate() --------------- *)
\* where evaluate goes once n episodes are played
AfterEvalEpisode(n) == IF n < ev_episodes THEN "ev_reset" ELSE "idle"

\* evaluate(env, agent, num_episodes), called after a train() call as in the
\* epoch loop of the main block
EvalBegin ==
    /\ r2_pc = "idle"
    /\ ev_calls < iterations
    /\ \E n \in 1..MaxEvalRollouts : ev_episodes' = n
    /\ ev_calls' = ev_calls + 1
    /\ total_reward' = 0
    /\ total_successes' = 0
    /\ ev_i' = 0
    /\ r2_pc' = "ev_reset"
    /\ UNCHANGED <<ev_obs, episode_reward, ev_seen>>
    /\ UNCHANGED <<sync_interval, num_episodes, num_batches, iterations, tensors,
                   online_params, target_params, opt_params, hidden, r2_error,
                   ep_i, b_i, observations, actions, rewards, dones, done,
                   callStartOnline, mem_length, current_step, current_cue, seed,
                   draws, explored>>
    /\ UNCHANGED <<bufVars, trVars, swVars, coVars>>

\* evaluate: policy.reset(), env.reset() and the zeroed episode reward
EvalReset ==
    /\ r2_pc = "ev_reset"
    /\ hidden' = H0
    /\ current_step' = 0
    /\ current_cue' = RandInt(draws, NumActions)
    /\ draws' = (draws + 1) % SeedBits
    /\ ev_obs' = MemObs(0, current_cue')
    /\ ev_seen' = <<ev_obs'>>
    /\ episode_reward' = 0
    /\ r2_pc' = "ev_act"
    /\ UNCHANGED <<ev_episodes, ev_calls, ev_i, total_reward, total_successes>>
    /\ UNCHANGED <<sync_interval, num_episodes, num_batches, iterations, tensors,
                   online_params, target_params, opt_params, r2_error, ep_i, b_i,
                   observations, actions, rewards, dones, done, callStartOnline,
                   mem_length, seed, explored>>
    /\ UNCHANGED <<bufVars, trVars, swVars, coVars>>

\* evaluate: one turn of the while loop, policy.act(obs, explore=False) and
\* env.step(action); after the last step the episode is counted
EvalStep ==
    /\ r2_pc = "ev_act"
    /\ LET action == QArgmax(Online, hidden)
           out    == MemStep(action)
       IN  /\ hidden' = Forward(ev_obs, hidden)
           /\ current_step' = out[1]
           /\ ev_obs' = out[2]
           /\ ev_seen' = Append(ev_seen, out[2])
           /\ episode_reward' = episode_reward + out[3]
           /\ IF out[4]
              THEN /\ total_reward' = total_reward + episode_reward'
                   /\ total_successes' =
                         IF episode_reward' > 0 THEN total_successes + 1
                         ELSE total_successes
                   /\ ev_i' = ev_i + 1
                   /\ r2_pc' = AfterEvalEpisode(ev_i + 1)
              ELSE /\ r2_pc' = "ev_act"
                   /\ UNCHANGED <<total_reward, total_successes, ev_i>>
    /\ UNCHANGED <<ev_episodes, ev_calls>>
    /\ UNCHANGED <<sync_interval, num_episodes, num_batches, iterations, tensors,
                   online_params, target_params, opt_params, r2_error, ep_i, b_i,
                   observations, actions, rewards, dones, done, callStartOnline,
                   mem_length, current_cue, seed, draws, explored>>
    /\ UNCHANGED <<bufVars, trVars, swVars, coVars>>

\* agent.train() of one more epoch
EpochTrain == iterations < MaxEpochs /\ TrainBegin

NextMain ==
    \/ EpochTrain \/ EpisodeReset \/ EnvStep \/ AddStep \/ LearnRound
    \/ EvalBegin \/ EvalReset \/ EvalStep

\* the learner of the main block: its buffer is larger than any episode,
\* every call rolls out episodes and takes one gradient step
InitMain ==
    /\ R2D2Init
    /\ capacity = mem_length + 3
    /\ num_episodes = MaxEpisodes
    /\ num_batches = 1
    /\ sync_interval = 1

SpecMain == InitMain /\ [][NextMain]_vars

(* ------------------- claims about the recurrent state ------------------ *)
\* C13: in every episode rolled out by train() or by evaluate() the recurrent
\* state is the zero-state before the episode's first act call and is never
\* reset inside the episode; every act call, greedy or exploratory, replaces
\* it with the state of that call's forward pass, so at the k-th act of an
\* episode it is the result of k-1 forward passes from the zero-state over
\* that episode's first k-1 observations, and holds nothing of an earlier
\* episode.
C13_HiddenStatePerEpisode ==
    /\ [](/\ r2_pc \in {"act", "add"} =>
                /\ hidden = ButLast(observations)
                /\ Len(hidden) = Len(actions)
          /\ r2_pc = "ev_act" => hidden = ButLast(ev_seen))
    /\ [][/\ r2_pc = "act" => hidden' = Forward(observations[Len(observations)], hidden)
          /\ r2_pc = "ev_act" => hidden' = Forward(ev_obs, hidden)
          /\ r2_pc \in {"reset", "ev_reset"} => hidden' = H0
          /\ r2_pc \notin {"act", "ev_act", "reset", "ev_reset"} => hidden' = hidden]_vars

\* the last episode of a train() call had an exploratory and a greedy act;
\* the evaluate that followed is in its second episode, after an act, and the
\* state holds that episode's observations alone
C13_Witness ==
    /\ r2_pc = "ev_act"
    /\ ev_i >= 1
    /\ Len(hidden) >= 1
    /\ hidden = ButLast(ev_seen)
    /\ \E k \in DOMAIN explored : explored[k]
    /\ \E k \in DOMAIN explored : ~explored[k]
    /\ Len(observations) = Len(explored) + 1

(* ---------------------- CoordinationGame ------------------------------- *)
ActionSet == 0..NumActions - 1

PartnerKinds == {"fixed", "sp", "fp"}

\* np.argmax(counts): the first index of the largest count
ArgMax(counts) ==
    CHOOSE a \in ActionSet :
        /\ \A x \in ActionSet : counts[x + 1] <= counts[a + 1]
        /\ \A x \in ActionSet : counts[x + 1] = counts[a + 1] => a <= x

\* FictitiousPlay._counts after act(opponent_action)
FpCountsAfter(opp) ==
    IF current_partner = "fp" /\ opp # None
    THEN [fp_counts EXCEPT ![opp + 1] = @ + 1]
    ELSE fp_counts

\* self._current_partner.act(self._opponent_action): the actions the partner
\* may return
PartnerActs(opp) ==
    IF current_partner = "fixed" THEN {fixed_action}
    ELSE IF opp = None THEN ActionSet
    ELSE IF current_partner = "sp" THEN {opp}
    ELSE {ArgMax(FpCountsAfter(opp))}

\* done = self._rounds <= self._current_round
CoDone(round) == rounds <= round

(* ---------------------- SpecRollout: the rollout loop ------------------ *)
\* the learner's fields, with no learner built
IdleLearner ==
    /\ sync_interval = 1
    /\ num_episodes = 0
    /\ num_batches = 0
    /\ iterations = 0
    /\ tensors = <<>>
    /\ online_params = "none"
    /\ target_params = "none"
    /\ opt_params = {}
    /\ hidden = <<>>
    /\ r2_pc = "none"
    /\ r2_error = "none"
    /\ ep_i = 0
    /\ b_i = 0
    /\ observations = <<>>
    /\ actions = <<>>
    /\ rewards = <<>>
    /\ dones = <<>>
    /\ done = FALSE
    /\ callStartOnline = 0
    /\ seed = 0
    /\ draws = 0
    /\ explored = <<>>

\* MemoryGame(length) or CoordinationGame(rounds, partners=...), before the
\* first reset
InitRollout ==
    /\ env_kind \in {"memory", "coordination"}
    /\ IF env_kind = "memory"
       THEN /\ mem_length \in 0..MaxMemLength
            /\ rounds = 0
            /\ partners = {}
       ELSE /\ mem_length = 0
            /\ rounds \in 0..MaxRounds
            /\ partners \in (SUBSET PartnerKinds) \ {{}}
    /\ current_step = 0
    /\ current_cue = 0
    /\ current_round = 0
    /\ current_partner = "none"
    /\ opponent_action = None
    /\ fixed_action = None
    /\ fp_counts = [a \in 1..NumActions |-> 0]
    /\ ro_pc = "reset"
    /\ ro_episodes = 0
    /\ ro_steps = 0
    /\ ro_out = [reward |-> 0, done |-> FALSE, action |-> None]
    /\ IdleLearner
    /\ BufferInit(1)
    /\ NoTrainer
    /\ NoStopwatch
    /\ NoEvaluate

\* obs = env.reset() and done = False, against MemoryGame
RoResetMemory ==
    /\ ro_pc = "reset"
    /\ env_kind = "memory"
    /\ ro_episodes < MaxRollouts
    /\ current_step' = 0
    /\ \E cue \in ActionSet : current_cue' = cue
    /\ ro_steps' = 0
    /\ ro_out' = [reward |-> 0, done |-> FALSE, action |-> None]
    /\ ro_pc' = "step"
    /\ UNCHANGED <<env_kind, rounds, partners, current_round, current_partner,
                   opponent_action, fixed_action, fp_counts, ro_episodes>>
    /\ UNCHANGED <<sync_interval, num_episodes, num_batches, iterations, tensors,
                   online_params, target_params, opt_params, hidden, r2_pc,
                   r2_error, ep_i, b_i, observations, actions, rewards, dones,
                   done, callStartOnline, mem_length, seed, draws, explored>>
    /\ UNCHANGED <<bufVars, trVars, swVars, evVars>>

\* one turn of the while loop against MemoryGame: some action, env.step
RoStepMemory ==
    /\ ro_pc = "step"
    /\ env_kind = "memory"
    /\ \E action \in ActionSet :
          LET out == MemStep(action)
          IN  /\ current_step' = out[1]
              /\ ro_out' = [reward |-> out[3], done |-> out[4], action |-> action]
              /\ ro_pc' = IF out[4] THEN "reset" ELSE "step"
              /\ ro_episodes' = IF out[4] THEN ro_episodes + 1 ELSE ro_episodes
    /\ ro_steps' = ro_steps + 1
    /\ UNCHANGED <<env_kind, rounds, partners, current_round, current_partner,
                   opponent_action, fixed_action, fp_counts>>
    /\ UNCHANGED <<sync_interval, num_episodes, num_batches, iterations, tensors,
                   online_params, target_params, opt_params, hidden, r2_pc,
                   r2_error, ep_i, b_i, observations, actions, rewards, dones,
                   done, callStartOnline, mem_length, current_cue, seed, draws,
                   explored>>
    /\ UNCHANGED <<bufVars, trVars, swVars, evVars>>

\* obs = env.reset() and done = False, against CoordinationGame
RoResetCoordination ==
    /\ ro_pc = "reset"
    /\ env_kind = "coordination"
    /\ ro_episodes < MaxRollouts
    /\ current_round' = 0
    /\ \E p \in partners :
          /\ current_partner' = p
          /\ IF p = "fixed"
             THEN \E a \in ActionSet : fixed_action' = a
             ELSE UNCHANGED fixed_action
          /\ IF p = "fp"
             THEN fp_counts' = [a \in 1..NumActions |-> 0]
             ELSE UNCHANGED fp_counts
    /\ opponent_action' = None
    /\ ro_steps' = 0
    /\ ro_out' = [reward |-> 0, done |-> FALSE, action |-> None]
    /\ ro_pc' = "step"
    /\ UNCHANGED <<env_kind, rounds, partners, ro_episodes>>
    /\ UNCHANGED r2Vars
    /\ UNCHANGED <<bufVars, trVars, swVars, evVars>>

\* one turn of the while loop against CoordinationGame
RoStepCoordination ==
    /\ ro_pc = "step"
    /\ env_kind = "coordination"
    /\ \E action \in ActionSet, partner_action \in PartnerActs(opponent_action) :
          /\ fp_counts' = FpCountsAfter(opponent_action)
          /\ opponent_action' = action
          /\ current_round' = current_round + 1
          /\ ro_out' = [reward |-> IF action = partner_action THEN 1 ELSE 0,
                        done |-> CoDone(current_round + 1), action |-> action]
    /\ ro_pc' = IF CoDone(current_round + 1) THEN "reset" ELSE "step"
    /\ ro_episodes' = IF CoDone(current_round + 1) THEN ro_episodes + 1
                      ELSE ro_episodes
    /\ ro_steps' = ro_steps + 1
    /\ UNCHANGED <<env_kind, rounds, partners, current_partner, fixed_action>>
    /\ UNCHANGED r2Vars
    /\ UNCHANGED <<bufVars, trVars, swVars, evVars>>

NextRollout ==
    \/ RoResetMemory \/ RoStepMemory
    \/ RoResetCoordination \/ RoStepCoordination

\* the loop is sequential code: while it has a step to take it takes it
SpecRollout == InitRollout /\ [][NextRollout]_vars /\ WF_vars(NextRollout)

(* ------------------- claims about the environments --------------------- *)
\* C20: every rollout terminates whatever actions are chosen.  From reset,
\* MemoryGame(length=L) returns done=False for exactly L steps and done=True
\* on step L+1, the only step that can carry a nonzero reward, which is 1
\* exactly when the action equals the cue; CoordinationGame(rounds=R) with
\* R >= 1 returns done=True on exactly step R; hence a rollout that has begun
\* reaches its done step.
C20_RolloutsTerminate ==
    /\ []((env_kind = "memory" /\ ro_steps >= 1) =>
             /\ ro_steps <= mem_length + 1
             /\ ro_out.done = (ro_steps = mem_length + 1)
             /\ ro_out.reward # 0 => ro_out.done
             /\ ro_out.done =>
                   ro_out.reward = (IF ro_out.action = current_cue THEN 1 ELSE 0))
    /\ []((env_kind = "coordination" /\ rounds >= 1 /\ ro_steps >= 1) =>
             /\ ro_steps <= rounds
             /\ ro_steps = current_round
             /\ ro_out.done = (ro_steps = rounds))
    /\ (ro_pc = "step") ~> (ro_out.done /\ ro_pc = "reset")

\* the second rollout against MemoryGame(1) has ended on its step 2 with the
\* reward of a matching action
C20_Witness ==
    /\ env_kind = "memory"
    /\ mem_length = 1
    /\ ro_episodes = 2
    /\ ro_steps = 2
    /\ ro_out.done
    /\ ro_out.reward = 1

\* the second rollout against CoordinationGame(2) with a fictitious-play
\* partner has ended on its step 2
C20_WitnessCoordination ==
    /\ env_kind = "coordination"
    /\ rounds = 2
    /\ current_partner = "fp"
    /\ ro_episodes = 2
    /\ ro_steps = 2
    /\ ro_out.done

====
